---- MODULE Spec2Model ----
(***************************************************************************)
(* A model of the crawl/extract engine of web-scraper: WebScraper in       *)
(* scraper.py (crawl_website, extract_data, parse_sitemap) and the page    *)
(* budget ceiling of the /scrape route in app.py.                          *)
(***************************************************************************)
EXTENDS Integers, Sequences, FiniteSets, TLC

(***************************************************************************)
(* Bounds of the model and constants of the program.                       *)
(***************************************************************************)
\* largest page budget a caller passes in the small site (budgets start at -1)
MaxBudget == 4

\* most fields of a selector mapping passed to extract_data
MaxFields == 2

\* most nodes a selector matches in a document
MaxMatches == 2

\* most <loc> entries of a regular sitemap
MaxLocs == 3

\* deepest nesting of parse_sitemap calls the interpreter allows
RecursionLimit == 3

\* the largest max_pages sent to the /scrape view
RouteBudget == 2

\* the largest page budget handed to crawl_and_scrape
ScrapeBudget == 2

\* the ceiling the /scrape route puts on max_pages
PageCeiling == 100

\* the last page of the chain site: more pages than the largest budget asked of it
ChainLen == PageCeiling + 2

(***************************************************************************)
(* URLs and hrefs.  urlparse splits a URL into scheme, netloc and path; a  *)
(* URL is modelled by that triple.  An href is absolute (it carries its    *)
(* own scheme and netloc) or relative (a path only).                       *)
(***************************************************************************)
Url(s, h, p) == [scheme |-> s, host |-> h, path |-> p]

Abs(s, h, p) == [kind |-> "abs", scheme |-> s, host |-> h, path |-> p]

Rel(p) == [kind |-> "rel", scheme |-> "", host |-> "", path |-> p]

\* urllib.parse.urljoin(current_url, href)
urljoin(base, href) ==
    IF href.kind = "rel"
    THEN Url(base.scheme, base.host, href.path)
    ELSE Url(href.scheme, href.host, href.path)

\* urlparse(url).netloc
netloc(url) == url.host

\* urlparse(url).scheme
scheme(url) == url.scheme

PageA == Url("http", "a.com", 0)
PageB == Url("http", "a.com", 1)
PageX == Url("https", "b.com", 0)
FileF == Url("ftp", "a.com", 0)

\* the hrefs a page of the small site may carry
Hrefs == { Rel(0), Rel(1),
           Abs(PageX.scheme, PageX.host, PageX.path),
           Abs(FileF.scheme, FileF.host, FileF.path) }

\* the anchors of one page of the small site: none, one or two distinct hrefs
PageBodies == { {} } \cup { { g, h } : g \in Hrefs, h \in Hrefs }

\* the start URLs callers pass in the small site
StartURLs == { PageA, PageB }

VARIABLES
    pc,                \* "idle", "loop" (inside crawl_website's while), "done"
    site,              \* which web the crawl runs against: "open" or "chain"
    via,               \* who called crawl_website: "direct" or "route"
    requested,         \* the page budget the caller asked for
    start_url,         \* crawl_website's start_url
    max_pages,         \* crawl_website's max_pages
    same_domain_only,  \* crawl_website's same_domain_only
    base_domain,       \* netloc of start_url
    visited_urls,      \* set of URLs
    discovered_urls,   \* the frontier, a set of URLs
    crawl_data,        \* URL -> crawl record (its 'links'; title and timestamp are left out)
    web,               \* URL -> the hrefs the page served when it was fetched
    log,               \* every call of scrape() made by the loop, in order
    clock,             \* time units slept so far
    result             \* <<>> until crawl_website returns, then <<report>>

crawlVars == << pc, site, via, requested, start_url, max_pages, same_domain_only, base_domain,
                visited_urls, discovered_urls, crawl_data, web, log, clock, result >>

VARIABLES
    e_pc,              \* extract_data: "idle", "loop", "returned", "raised"
    soup,              \* the parsed document: selector -> the nodes it matches, in document order
    selectors,         \* the selector mapping, as its items in iteration order
    e_i,               \* position of the for loop in selectors
    data,              \* extract_data's local dict
    evaluated,         \* the selectors handed to soup.select so far, in order
    outcome            \* <<>> until extract_data ends, then what the caller gets

extractVars == << e_pc, soup, selectors, e_i, data, evaluated, outcome >>

VARIABLES
    s_pc,              \* parse_sitemap: "idle", "run", "done"
    sitemaps,          \* what is served at each sitemap URL
    root,              \* the sitemap_url of the outermost call
    stack,             \* the frames of the nested parse_sitemap calls, innermost last
    s_result           \* <<>> until the outermost call returns, then <<urls>>

sitemapVars == << s_pc, sitemaps, root, stack, s_result >>

VARIABLES
    cs_pc,             \* crawl_and_scrape: "idle", "crawl", "scrape", "done"
    cs_selectors,      \* crawl_and_scrape's selectors
    pending,           \* the keys of crawl_result['pages'] the for loop has still to take
    scraped_data,      \* URL -> the data extracted from it
    cs_log,            \* every call of scrape() made by the for loop, in order
    cs_result          \* <<>> until crawl_and_scrape returns, then <<what it returns>>;
                       \* "empty" marks the {} that has neither crawl_info nor scraped_data

scrapeVars == << cs_pc, cs_selectors, pending, scraped_data, cs_log, cs_result >>

VARIABLES
    a_pc,              \* authenticate: "idle", "called", then the position inside the strategy, "done"
    auth_type,         \* authenticate's auth_type
    credentials,       \* the keys present in authenticate's credentials
    a_selenium,        \* self.use_selenium of the scraper authenticate is called on
    session_auth,      \* whether self.session.auth has been set
    authorization,     \* whether the session carries an Authorization header
    a_requests,        \* the requests authenticate has sent, in order
    a_raised,          \* whether an exception has been raised inside authenticate
    a_result           \* <<>> until authenticate returns, then <<what it returns>>

authVars == << a_pc, auth_type, credentials, a_selenium, session_auth, authorization,
               a_requests, a_raised, a_result >>

VARIABLES
    f_pc,              \* scrape: "idle", "try", "returned", "raised"
    f_url,             \* scrape's url, as its characters
    f_selenium,        \* self.use_selenium of the scraper scrape is called on
    f_requests,        \* the number of requests scrape has sent
    f_outcome          \* <<>> until scrape ends, then <<what the caller gets>>

fetchVars == << f_pc, f_url, f_selenium, f_requests, f_outcome >>

VARIABLES
    r_pc,              \* the /scrape view: "idle", "validated", "constructed", "calling",
                       \* "saving", "finally", "done"
    form,              \* request.form
    session,           \* the scraper's requests.Session: "none", "open", "closed"
    driver,            \* the scraper's WebDriver: "none", "open", "quit"
    close_called,      \* whether scraper.close() has been called
    r_called,          \* the attribute of the scraper the view called, "" before it calls one
    r_error,           \* the exception the view caught, "" if none
    r_response         \* <<>> until the view returns, then <<response>>

routeVars == << r_pc, form, session, driver, close_called, r_called, r_error, r_response >>

vars == << crawlVars, extractVars, sitemapVars, scrapeVars, authVars, fetchVars, routeVars >>

\* what each operation leaves alone
notCrawl == << extractVars, sitemapVars, scrapeVars, authVars, fetchVars, routeVars >>

notExtract == << crawlVars, sitemapVars, scrapeVars, authVars, fetchVars, routeVars >>

notSitemap == << crawlVars, extractVars, scrapeVars, authVars, fetchVars, routeVars >>

\* crawl_and_scrape runs the crawl and reads the documents it is served
notScrape == << extractVars, sitemapVars, authVars, fetchVars, routeVars >>

notAuth == << crawlVars, extractVars, sitemapVars, scrapeVars, fetchVars, routeVars >>

notFetch == << crawlVars, extractVars, sitemapVars, scrapeVars, authVars, routeVars >>

\* the view runs the scraper's operations and leaves these alone
notRoute == << extractVars, sitemapVars, authVars >>

NoUrl == Url("", "", 0)

EmptyMap == [u \in {} |-> {}]

(***************************************************************************)
(* The web.  A page's content is the set of hrefs of its anchors; it is    *)
(* fixed the first time the page is served.  In the open site any page may *)
(* carry any body; in the chain site page i links to page 0 and to i+1.    *)
(***************************************************************************)
Contents(u) ==
    IF u \in DOMAIN web THEN { web[u] }
    ELSE IF site = "chain"
         THEN { { Rel(p) : p \in { q \in { 0, u.path + 1 } : q <= ChainLen } } }
         ELSE PageBodies

(***************************************************************************)
(* crawl_website                                                           *)
(***************************************************************************)
\* a link filter that forgets the same-domain test
LinkAdmittedAnyDomain(absolute_url) == scheme(absolute_url) \in {"http", "https"}

\* a link filter that takes http for the only scheme to follow
LinkAdmittedHttpOnly(absolute_url) ==
    /\ ~(same_domain_only /\ netloc(absolute_url) # base_domain)
    /\ scheme(absolute_url) = "http"

\* the test of the two `continue`s that filter a link (scraper.py 447-453)
LinkAdmitted(absolute_url) ==
    /\ ~(same_domain_only /\ netloc(absolute_url) # base_domain)
    /\ scheme(absolute_url) \in {"http", "https"}

\* a for loop that adds every admitted link, visited or not
HarvestLinksNoVisitedTest(current_url, hrefs, frontier) ==
    frontier \cup { urljoin(current_url, h) : h \in
                      { g \in hrefs : LinkAdmitted(urljoin(current_url, g)) } }

\* the for loop over the anchors of the page fetched at current_url
HarvestLinks(current_url, hrefs, frontier) ==
    frontier \cup { urljoin(current_url, h) : h \in
                      { g \in hrefs : /\ LinkAdmitted(urljoin(current_url, g))
                                      /\ urljoin(current_url, g) \notin visited_urls } }

\* a while loop that tests the budget with <= instead of <
LoopConditionOffByOne == discovered_urls # {} /\ Cardinality(visited_urls) <= max_pages

\* the condition of the while loop
LoopCondition == discovered_urls # {} /\ Cardinality(visited_urls) < max_pages

\* the call crawl_website(start, budget, sdo), up to the first test of the while
\* the assignments crawl_website makes before its while loop
StartCrawl(start, budget, sdo, caller, asked) ==
    /\ pc = "idle"
    /\ pc' = "loop"
    /\ via' = caller
    /\ requested' = asked
    /\ start_url' = start
    /\ max_pages' = budget
    /\ same_domain_only' = sdo
    /\ base_domain' = netloc(start)
    /\ visited_urls' = {}
    /\ discovered_urls' = { start }
    /\ crawl_data' = EmptyMap
    /\ UNCHANGED << site, web, log, clock, result >>

EnterCrawl(start, budget, sdo, caller, asked) ==
    /\ StartCrawl(start, budget, sdo, caller, asked)
    /\ UNCHANGED notCrawl

crawl_website(start, budget, sdo) == EnterCrawl(start, budget, sdo, "direct", budget)

\* a route that passes the requested budget on as it is
ClampPagesMissing(n) == n

\* "Validate max_pages" in the /scrape route
ClampPages(n) == IF n > PageCeiling THEN PageCeiling ELSE n

\* the /scrape route asked to crawl: the budget is validated, then the crawl runs
scrape_route(url, asked, sdo) == EnterCrawl(url, ClampPages(asked), sdo, "route", asked)

\* an iteration that looks at a visited URL of the frontier without removing it
PopVisitedPeek(current_url) ==
    /\ pc = "loop"
    /\ LoopCondition
    /\ current_url \in discovered_urls
    /\ current_url \in visited_urls
    /\ UNCHANGED vars

\* an iteration that fetches and records a popped URL although it is visited
PopVisitedRefetch(current_url) ==
    /\ pc = "loop"
    /\ UNCHANGED notCrawl
    /\ LoopCondition
    /\ current_url \in discovered_urls
    /\ current_url \in visited_urls
    /\ discovered_urls' = discovered_urls \ { current_url }
    /\ log' = Append(log, [url |-> current_url, ok |-> TRUE, at |-> clock])
    /\ crawl_data' = [crawl_data EXCEPT ![current_url] = [links |-> discovered_urls']]
    /\ clock' = clock + 1
    /\ UNCHANGED << pc, site, via, requested, start_url, max_pages, same_domain_only, base_domain,
                    visited_urls, web, result >>

\* an iteration that pops a URL already visited
PopVisited(current_url) ==
    /\ pc = "loop"
    /\ UNCHANGED notCrawl
    /\ LoopCondition
    /\ current_url \in discovered_urls
    /\ current_url \in visited_urls
    /\ discovered_urls' = discovered_urls \ { current_url }
    /\ UNCHANGED << pc, site, via, requested, start_url, max_pages, same_domain_only, base_domain,
                    visited_urls, crawl_data, web, log, clock, result >>

\* a failed fetch that still marks the URL visited
FetchFailedCounts(current_url) ==
    /\ pc = "loop"
    /\ UNCHANGED notCrawl
    /\ LoopCondition
    /\ current_url \in discovered_urls
    /\ current_url \notin visited_urls
    /\ discovered_urls' = discovered_urls \ { current_url }
    /\ visited_urls' = visited_urls \cup { current_url }
    /\ log' = Append(log, [url |-> current_url, ok |-> FALSE, at |-> clock])
    /\ UNCHANGED << pc, site, via, requested, start_url, max_pages, same_domain_only, base_domain,
                    crawl_data, web, clock, result >>

\* an iteration whose scrape(current_url) raises
FetchFailed(current_url) ==
    /\ pc = "loop"
    /\ UNCHANGED notCrawl
    /\ LoopCondition
    /\ current_url \in discovered_urls
    /\ current_url \notin visited_urls
    /\ discovered_urls' = discovered_urls \ { current_url }
    /\ log' = Append(log, [url |-> current_url, ok |-> FALSE, at |-> clock])
    /\ UNCHANGED << pc, site, via, requested, start_url, max_pages, same_domain_only, base_domain,
                    visited_urls, crawl_data, web, clock, result >>

\* an iteration whose scrape(current_url) returns a page with the anchors hrefs
FetchOk(current_url, hrefs) ==
    /\ pc = "loop"
    /\ UNCHANGED notCrawl
    /\ LoopCondition
    /\ current_url \in discovered_urls
    /\ current_url \notin visited_urls
    /\ hrefs \in Contents(current_url)
    /\ web' = (current_url :> hrefs) @@ web
    /\ log' = Append(log, [url |-> current_url, ok |-> TRUE, at |-> clock])
    /\ discovered_urls' = HarvestLinks(current_url, hrefs, discovered_urls \ { current_url })
    /\ crawl_data' = (current_url :> [links |-> discovered_urls']) @@ crawl_data
    /\ visited_urls' = visited_urls \cup { current_url }
    /\ clock' = clock + 1
    /\ UNCHANGED << pc, site, via, requested, start_url, max_pages, same_domain_only, base_domain, result >>

\* the while loop ends and the report is returned
ReturnReport ==
    /\ pc = "loop"
    /\ UNCHANGED notCrawl
    /\ ~LoopCondition
    /\ pc' = "done"
    /\ result' = << [base_url |-> start_url,
                     total_pages |-> Cardinality(visited_urls),
                     pages |-> crawl_data] >>
    /\ UNCHANGED << site, via, requested, start_url, max_pages, same_domain_only, base_domain,
                    visited_urls, discovered_urls, crawl_data, web, log, clock >>

(***************************************************************************)
(* extract_data.  The text of a node is a sequence of characters; a        *)
(* document is given by the nodes each selector matches.  A selector that  *)
(* is no CSS makes soup.select raise, whatever the document.               *)
(***************************************************************************)
FieldNames == { "title", "paragraphs", "links" }

ValidSelectors == { "h1", "p" }

InvalidSelectors == { "p[" }

\* the raw texts of the nodes of a document
NodeTexts == { << "x" >>, << " ", "y", " " >> }

\* sequences over S of length at most n
SeqUpTo(S, n) == UNION { [1..k -> S] : k \in 0..n }

\* the documents: what soup.select(selector) returns for each valid selector
Soups == [ValidSelectors -> SeqUpTo(NodeTexts, MaxMatches)]

\* the selector mappings: a dict has each key once, and iterates in insertion order
SelectorMaps ==
    { m \in SeqUpTo([key : FieldNames, selector : ValidSelectors \cup InvalidSelectors], MaxFields) :
        \A i, j \in 1..Len(m) : m[i].key = m[j].key => i = j }

RECURSIVE lstrip(_)
lstrip(t) == IF t # << >> /\ Head(t) = " " THEN lstrip(Tail(t)) ELSE t

RECURSIVE rstrip(_)
rstrip(t) == IF t # << >> /\ t[Len(t)] = " " THEN rstrip(SubSeq(t, 1, Len(t) - 1)) ELSE t

\* elem.get_text(strip=True) of a node holding one text
get_text(node) == rstrip(lstrip(node))

NullValue == [kind |-> "null", texts |-> << >>]

\* a value that is a sequence even when one node matched
FieldValueAlwaysList(elements) ==
    IF elements # << >>
    THEN [kind |-> "list", texts |-> [j \in 1..Len(elements) |-> get_text(elements[j])]]
    ELSE NullValue

\* the value stored for a field whose selector matched elements (scraper.py 307-315)
FieldValue(elements) ==
    IF elements # << >>
    THEN IF Len(elements) = 1
         THEN [kind |-> "str", texts |-> << get_text(elements[1]) >>]
         ELSE [kind |-> "list", texts |-> [j \in 1..Len(elements) |-> get_text(elements[j])]]
    ELSE NullValue

SelectorError(field) == << [kind |-> "SelectorError", field |-> field, data |-> EmptyMap] >>

\* a call that goes into the loop without looking at the mapping
extract_data_unchecked(doc, sels) ==
    /\ e_pc = "idle"
    /\ UNCHANGED notExtract
    /\ soup' = doc
    /\ selectors' = sels
    /\ e_pc' = "loop"
    /\ outcome' = outcome
    /\ e_i' = 1
    /\ data' = EmptyMap
    /\ evaluated' = << >>

\* the call extract_data(soup, selectors), up to the for loop
extract_data(doc, sels) ==
    /\ e_pc = "idle"
    /\ UNCHANGED notExtract
    /\ soup' = doc
    /\ selectors' = sels
    /\ IF sels = << >>
       THEN /\ e_pc' = "raised"
            /\ outcome' = SelectorError("")
            /\ UNCHANGED << e_i, data, evaluated >>
       ELSE /\ e_pc' = "loop"
            /\ outcome' = outcome
            /\ e_i' = 1
            /\ data' = EmptyMap
            /\ evaluated' = << >>

\* an iteration whose soup.select(selector) returns
SelectReturns ==
    /\ e_pc = "loop"
    /\ UNCHANGED notExtract
    /\ e_i <= Len(selectors)
    /\ selectors[e_i].selector \in ValidSelectors
    /\ evaluated' = Append(evaluated, selectors[e_i].selector)
    /\ data' = (selectors[e_i].key :> FieldValue(soup[selectors[e_i].selector])) @@ data
    /\ e_i' = e_i + 1
    /\ UNCHANGED << e_pc, soup, selectors, outcome >>

\* a failing selector that is logged and gives the caller the fields extracted so far
SelectRaisesPartial ==
    /\ e_pc = "loop"
    /\ UNCHANGED notExtract
    /\ e_i <= Len(selectors)
    /\ selectors[e_i].selector \in InvalidSelectors
    /\ evaluated' = Append(evaluated, selectors[e_i].selector)
    /\ e_pc' = "raised"
    /\ outcome' = << [kind |-> "SelectorError", field |-> selectors[e_i].key, data |-> data] >>
    /\ UNCHANGED << soup, selectors, e_i, data >>

\* an iteration whose soup.select(selector) raises: SelectorError leaves extract_data
SelectRaises ==
    /\ e_pc = "loop"
    /\ UNCHANGED notExtract
    /\ e_i <= Len(selectors)
    /\ selectors[e_i].selector \in InvalidSelectors
    /\ evaluated' = Append(evaluated, selectors[e_i].selector)
    /\ e_pc' = "raised"
    /\ outcome' = SelectorError(selectors[e_i].key)
    /\ UNCHANGED << soup, selectors, e_i, data >>

\* the for loop is over: return data
ReturnData ==
    /\ e_pc = "loop"
    /\ UNCHANGED notExtract
    /\ e_i > Len(selectors)
    /\ e_pc' = "returned"
    /\ outcome' = << [kind |-> "data", field |-> "", data |-> data] >>
    /\ UNCHANGED << soup, selectors, e_i, data, evaluated >>

ExtractIdle ==
    /\ e_pc = "idle"
    /\ soup = [s \in ValidSelectors |-> << >>]
    /\ selectors = << >>
    /\ e_i = 0
    /\ data = EmptyMap
    /\ evaluated = << >>
    /\ outcome = << >>

(***************************************************************************)
(* parse_sitemap.  A <loc> is the pair of the sitemap that lists it and    *)
(* its position there; position 0 names the sitemap itself.  What a URL    *)
(* serves is a sitemap index, a regular sitemap, or a failure (of the      *)
(* request, of raise_for_status or of the parser).  The frames of the      *)
(* recursion are kept on a stack.                                          *)
(***************************************************************************)
SitemapNames == { "s0", "s1", "s2" }

Loc(s, n) == [site |-> s, n |-> n]

SitemapURLs == { Loc(s, 0) : s \in SitemapNames }

\* the <loc> lists of a sitemap index: no, one or two sitemaps, or one sitemap
\* listed before and after another
IndexBodies ==
    { << >> } \cup { << a >> : a \in SitemapURLs }
    \cup { << a, b >> : a \in SitemapURLs, b \in SitemapURLs }
    \cup { << a, b, a >> : a \in SitemapURLs, b \in SitemapURLs }

\* what a sitemap URL may serve, before its <loc> texts are written out
Shapes ==
    { [kind |-> "error", body |-> << >>, n |-> 0] }
    \cup { [kind |-> "index", body |-> b, n |-> 0] : b \in IndexBodies }
    \cup { [kind |-> "urlset", body |-> << >>, n |-> n] : n \in 0..MaxLocs }

\* the document of shape sh served at the sitemap URL u
Document(u, sh) ==
    [kind |-> sh.kind,
     locs |-> IF sh.kind = "urlset" THEN [k \in 1..sh.n |-> Loc(u.site, k)] ELSE sh.body]

\* the webs of sitemaps
SitemapWebs == { [u \in SitemapURLs |-> Document(u, sh[u.site])] : sh \in [SitemapNames -> Shapes] }

\* the locals of one call: sitemap_url, the position of its for loop, urls
Frame(u) == [url |-> u, i |-> 1, urls |-> << >>]

TopFrame == stack[Len(stack)]

\* urls.extend(sub_urls) done at the wrong end
ExtendedFront(urls, sub_urls) == sub_urls \o urls

\* urls.extend(sub_urls)
Extended(urls, sub_urls) == urls \o sub_urls

\* the innermost call returns v: to its caller's loop, or to the outside
ReturnFromCall(v) ==
    IF Len(stack) = 1
    THEN /\ stack' = << >>
         /\ s_pc' = "done"
         /\ s_result' = << v >>
    ELSE /\ stack' = [SubSeq(stack, 1, Len(stack) - 1) EXCEPT
                        ![Len(stack) - 1] = [@ EXCEPT !.urls = Extended(@, v), !.i = @ + 1]]
         /\ UNCHANGED << s_pc, s_result >>

\* the outermost call parse_sitemap(u) against the web w
parse_sitemap(w, u) ==
    /\ s_pc = "idle"
    /\ UNCHANGED notSitemap
    /\ sitemaps' = w
    /\ root' = u
    /\ stack' = << Frame(u) >>
    /\ s_pc' = "run"
    /\ UNCHANGED s_result

\* a failure that is not caught in the call it happens in and ends the whole resolution
SitemapFailsPropagates ==
    /\ s_pc = "run"
    /\ UNCHANGED notSitemap
    /\ sitemaps[TopFrame.url].kind = "error"
    /\ stack' = << >>
    /\ s_pc' = IF Len(stack) = 1 THEN "done" ELSE "raised"
    /\ s_result' = IF Len(stack) = 1 THEN << << >> >> ELSE s_result
    /\ UNCHANGED << sitemaps, root >>

\* the request or the parse of the innermost call fails: it returns []
SitemapFails ==
    /\ s_pc = "run"
    /\ UNCHANGED notSitemap
    /\ sitemaps[TopFrame.url].kind = "error"
    /\ ReturnFromCall(<< >>)
    /\ UNCHANGED << sitemaps, root >>

\* the innermost call reads a regular sitemap and returns its <loc> texts
ReadUrlset ==
    /\ s_pc = "run"
    /\ UNCHANGED notSitemap
    /\ sitemaps[TopFrame.url].kind = "urlset"
    /\ ReturnFromCall(sitemaps[TopFrame.url].locs)
    /\ UNCHANGED << sitemaps, root >>

\* the loop of an index calls parse_sitemap on its next <loc>
RecurseInto ==
    /\ s_pc = "run"
    /\ UNCHANGED notSitemap
    /\ sitemaps[TopFrame.url].kind = "index"
    /\ TopFrame.i <= Len(sitemaps[TopFrame.url].locs)
    /\ Len(stack) < RecursionLimit
    /\ stack' = Append(stack, Frame(sitemaps[TopFrame.url].locs[TopFrame.i]))
    /\ UNCHANGED << s_pc, sitemaps, root, s_result >>

\* a RecursionError that no handler catches and that ends the whole resolution
RecursionOverflowUncaught ==
    /\ s_pc = "run"
    /\ UNCHANGED notSitemap
    /\ sitemaps[TopFrame.url].kind = "index"
    /\ TopFrame.i <= Len(sitemaps[TopFrame.url].locs)
    /\ Len(stack) >= RecursionLimit
    /\ stack' = << >>
    /\ s_pc' = "raised"
    /\ UNCHANGED << sitemaps, root, s_result >>

\* the call would nest too deep: RecursionError is caught and the caller returns []
RecursionOverflow ==
    /\ s_pc = "run"
    /\ UNCHANGED notSitemap
    /\ sitemaps[TopFrame.url].kind = "index"
    /\ TopFrame.i <= Len(sitemaps[TopFrame.url].locs)
    /\ Len(stack) >= RecursionLimit
    /\ ReturnFromCall(<< >>)
    /\ UNCHANGED << sitemaps, root >>

\* the loop of an index is over: return urls
ReturnIndex ==
    /\ s_pc = "run"
    /\ UNCHANGED notSitemap
    /\ sitemaps[TopFrame.url].kind = "index"
    /\ TopFrame.i > Len(sitemaps[TopFrame.url].locs)
    /\ ReturnFromCall(TopFrame.urls)
    /\ UNCHANGED << sitemaps, root >>

SitemapIdle ==
    /\ s_pc = "idle"
    /\ sitemaps = [u \in SitemapURLs |-> [kind |-> "error", locs |-> << >>]]
    /\ root = Loc("s0", 0)
    /\ stack = << >>
    /\ s_result = << >>

(***************************************************************************)
(* crawl_and_scrape (scraper.py 488-540): the crawl, then one scrape and   *)
(* one extraction for every page of the report.                            *)
(***************************************************************************)
\* what extract_data(doc, sels) gives its caller when it is run to its end;
\* a dict has each key once, so one item of sels carries the key k
Extraction(doc, sels) ==
    LET item(k) == sels[CHOOSE i \in 1..Len(sels) : sels[i].key = k]
    IN  IF sels = << >> \/ \E i \in 1..Len(sels) : sels[i].selector \in InvalidSelectors
        THEN [raised |-> TRUE, data |-> EmptyMap]
        ELSE [raised |-> FALSE,
              data |-> [k \in { sels[i].key : i \in 1..Len(sels) } |-> FieldValue(doc[item(k).selector])]]

\* the selector mappings handed to crawl_and_scrape: none, a valid one, a failing one
ScrapeSelectors ==
    { << >>,
      << [key |-> "title", selector |-> "h1"] >>,
      << [key |-> "title", selector |-> "h1"], [key |-> "links", selector |-> "p["] >> }

\* the documents the second request of a page can be answered with
ScrapeSoups ==
    { [sel \in ValidSelectors |-> << >>],
      [sel \in ValidSelectors |-> << << " ", "y", " " >> >>] }

\* the URLs of every request the crawl made, in order
PagesToScrapeAllRequested == [i \in 1..Len(log) |-> log[i].url]

\* crawl_result['pages'].keys(): the pages of the report in the order they were stored
PagesToScrape ==
    LET RECURSIVE kept(_)
        kept(l) == IF l = << >> THEN << >>
                   ELSE IF Head(l).ok THEN << Head(l).url >> \o kept(Tail(l))
                   ELSE kept(Tail(l))
    IN  kept(log)

\* crawl_and_scrape up to its call of crawl_website
StartCrawlAndScrape(start, sels, budget, sdo) ==
    /\ cs_pc = "idle"
    /\ cs_pc' = "crawl"
    /\ cs_selectors' = sels
    /\ StartCrawl(start, budget, sdo, "crawl_and_scrape", budget)
    /\ UNCHANGED << pending, scraped_data, cs_log, cs_result >>

\* the call crawl_and_scrape(start_url, selectors, max_pages, same_domain_only)
crawl_and_scrape(start, sels, budget, sdo) ==
    /\ StartCrawlAndScrape(start, sels, budget, sdo)
    /\ UNCHANGED notScrape

\* crawl_website has returned a report without pages: return {}
NoPagesFound ==
    /\ cs_pc = "crawl"
    /\ pc = "done"
    /\ UNCHANGED notScrape
    /\ DOMAIN result[1].pages = {}
    /\ cs_pc' = "done"
    /\ cs_result' = << [empty |-> TRUE, crawl_info |-> result[1], scraped_data |-> EmptyMap] >>
    /\ UNCHANGED << crawlVars, cs_selectors, pending, scraped_data, cs_log >>

\* crawl_website has returned a report with pages: enter the for loop
BeginScrape ==
    /\ cs_pc = "crawl"
    /\ pc = "done"
    /\ UNCHANGED notScrape
    /\ DOMAIN result[1].pages # {}
    /\ cs_pc' = "scrape"
    /\ pending' = PagesToScrape
    /\ scraped_data' = EmptyMap
    /\ UNCHANGED << crawlVars, cs_selectors, cs_log, cs_result >>

\* an iteration whose scrape(url) raises: logged, continue
ScrapeFails ==
    /\ cs_pc = "scrape"
    /\ pending # << >>
    /\ UNCHANGED notScrape
    /\ cs_log' = Append(cs_log, [url |-> Head(pending), ok |-> FALSE, extracted |-> FALSE])
    /\ pending' = Tail(pending)
    /\ UNCHANGED << crawlVars, cs_pc, cs_selectors, scraped_data, cs_result >>

\* an iteration whose scrape(url) returns doc: extract, store, sleep
ScrapeReturns(doc) ==
    /\ cs_pc = "scrape"
    /\ pending # << >>
    /\ UNCHANGED notScrape
    /\ LET url == Head(pending)
           got == Extraction(doc, cs_selectors)
       IN  IF got.raised
           THEN /\ cs_log' = Append(cs_log, [url |-> url, ok |-> TRUE, extracted |-> FALSE])
                /\ UNCHANGED << scraped_data, clock >>
           ELSE /\ cs_log' = Append(cs_log, [url |-> url, ok |-> TRUE, extracted |-> TRUE])
                /\ scraped_data' = IF DOMAIN got.data # {}
                                   THEN (url :> got.data) @@ scraped_data
                                   ELSE scraped_data
                /\ clock' = clock + 1
    /\ pending' = Tail(pending)
    /\ UNCHANGED << pc, site, via, requested, start_url, max_pages, same_domain_only, base_domain,
                    visited_urls, discovered_urls, crawl_data, web, log, result,
                    cs_pc, cs_selectors, cs_result >>

\* the for loop is over: return the report and the scraped data
ReturnScraped ==
    /\ cs_pc = "scrape"
    /\ pending = << >>
    /\ UNCHANGED notScrape
    /\ cs_pc' = "done"
    /\ cs_result' = << [empty |-> FALSE, crawl_info |-> result[1], scraped_data |-> scraped_data] >>
    /\ UNCHANGED << crawlVars, cs_selectors, pending, scraped_data, cs_log >>

ScrapeIdle ==
    /\ cs_pc = "idle"
    /\ cs_selectors = << >>
    /\ pending = << >>
    /\ scraped_data = EmptyMap
    /\ cs_log = << >>
    /\ cs_result = << >>

(***************************************************************************)
(* authenticate (scraper.py 95-231)                                        *)
(***************************************************************************)
\* the strategy names: the three supported ones and one that is not
AuthTypes == { "basic", "form", "api", "oauth" }

\* the credentials bags, as the set of keys they hold
CredentialBags == SUBSET { "username", "password", "api_key" }

\* how a request ends: the transport raises, or a response with a status arrives
Responses == { "error", "200", "401" }

\* what response.json() gives for a 200 answer of the API
JsonBodies == { "token", "no token", "not json" }

\* what the login page shows the driver
FormElements == { "username", "password", "submit" }

\* authenticate returns value v
AuthReturn(v) ==
    /\ a_pc' = "done"
    /\ a_result' = << v >>

\* an exception that no handler catches and that leaves authenticate
AuthNoExcept ==
    /\ a_pc' = "propagated"
    /\ a_raised' = TRUE
    /\ a_result' = a_result

\* "except Exception": the exception is logged and False is returned
AuthExcept ==
    /\ a_raised' = TRUE
    /\ AuthReturn(FALSE)

\* the call authenticate(url, auth_type, credentials)
authenticate(type, creds, selenium) ==
    /\ a_pc = "idle"
    /\ UNCHANGED notAuth
    /\ a_pc' = "called"
    /\ auth_type' = type
    /\ credentials' = creds
    /\ a_selenium' = selenium
    /\ UNCHANGED << session_auth, authorization, a_requests, a_raised, a_result >>

\* auth_type is none of the three: log and return False
AuthUnsupported ==
    /\ a_pc = "called"
    /\ auth_type \notin { "basic", "form", "api" }
    /\ UNCHANGED notAuth
    /\ AuthReturn(FALSE)
    /\ UNCHANGED << auth_type, credentials, a_selenium, session_auth, authorization, a_requests, a_raised >>

\* 'basic': set session.auth, GET the URL, success is status 200
AuthBasic(response) ==
    /\ a_pc = "called"
    /\ auth_type = "basic"
    /\ UNCHANGED notAuth
    /\ session_auth' = TRUE
    /\ a_requests' = Append(a_requests, "GET")
    /\ IF response = "error"
       THEN AuthExcept
       ELSE AuthReturn(response = "200") /\ UNCHANGED a_raised
    /\ UNCHANGED << auth_type, credentials, a_selenium, authorization >>

\* 'form' without Selenium: GET the login page
FormGet(response) ==
    /\ a_pc = "called"
    /\ auth_type = "form"
    /\ ~a_selenium
    /\ UNCHANGED notAuth
    /\ a_requests' = Append(a_requests, "GET")
    /\ IF response = "error"
       THEN AuthExcept
       ELSE a_pc' = "login_data" /\ UNCHANGED << a_raised, a_result >>
    /\ UNCHANGED << auth_type, credentials, a_selenium, session_auth, authorization >>

\* 'form' without Selenium: build login_data and POST it, success is status 200
FormPost(response) ==
    /\ a_pc = "login_data"
    /\ UNCHANGED notAuth
    /\ IF { "username", "password" } \subseteq credentials
       THEN /\ a_requests' = Append(a_requests, "POST")
            /\ IF response = "error"
               THEN AuthExcept
               ELSE AuthReturn(response = "200") /\ UNCHANGED a_raised
       ELSE /\ AuthExcept
            /\ UNCHANGED a_requests
    /\ UNCHANGED << auth_type, credentials, a_selenium, session_auth, authorization >>

\* 'form' with Selenium: load the login page in the driver
DriverGet(loaded) ==
    /\ a_pc = "called"
    /\ auth_type = "form"
    /\ a_selenium
    /\ UNCHANGED notAuth
    /\ a_requests' = Append(a_requests, "driver.get")
    /\ IF loaded
       THEN a_pc' = "page" /\ UNCHANGED << a_raised, a_result >>
       ELSE AuthExcept
    /\ UNCHANGED << auth_type, credentials, a_selenium, session_auth, authorization >>

\* 'form' with Selenium: find and fill the two fields, find and click the button
DriverFill(found) ==
    /\ a_pc = "page"
    /\ UNCHANGED notAuth
    /\ IF found = FormElements /\ { "username", "password" } \subseteq credentials
       THEN a_pc' = "submitted" /\ UNCHANGED << a_raised, a_result >>
       ELSE AuthExcept
    /\ UNCHANGED << auth_type, credentials, a_selenium, session_auth, authorization, a_requests >>

\* 'form' with Selenium: success is a current URL without 'login'
DriverCheck(on_login) ==
    /\ a_pc = "submitted"
    /\ UNCHANGED notAuth
    /\ AuthReturn(~on_login)
    /\ UNCHANGED << auth_type, credentials, a_selenium, session_auth, authorization, a_requests, a_raised >>

\* 'api': POST the credentials as JSON; on status 200 keep the token of the answer
ApiPost(response, body) ==
    /\ a_pc = "called"
    /\ auth_type = "api"
    /\ UNCHANGED notAuth
    /\ a_requests' = Append(a_requests, "POST")
    /\ IF response = "error" \/ (response = "200" /\ body = "not json")
       THEN AuthExcept /\ UNCHANGED authorization
       ELSE /\ AuthReturn(response = "200")
            /\ authorization' = (authorization \/ (response = "200" /\ body = "token"))
            /\ UNCHANGED a_raised
    /\ UNCHANGED << auth_type, credentials, a_selenium, session_auth >>

AuthIdle ==
    /\ a_pc = "idle"
    /\ auth_type = ""
    /\ credentials = {}
    /\ a_selenium = FALSE
    /\ session_auth = FALSE
    /\ authorization = FALSE
    /\ a_requests = << >>
    /\ a_raised = FALSE
    /\ a_result = << >>

(***************************************************************************)
(* scrape (scraper.py 233-283)                                             *)
(***************************************************************************)
\* how the request of scrape ends with the static backend
StaticOutcomes == { "ok", "Timeout", "ConnectionError", "HTTPError" }

\* how driver.get ends with the rendered backend
RenderedOutcomes == { "ok", "WebDriverException" }

\* the address of the page PageA
AddressA == << "a" >>

\* the call scrape(url)
StartFetch(url, selenium) ==
    /\ f_pc = "idle"
    /\ f_pc' = "try"
    /\ f_url' = url
    /\ f_selenium' = selenium
    /\ UNCHANGED << f_requests, f_outcome >>

scrape(url, selenium) ==
    /\ StartFetch(url, selenium)
    /\ UNCHANGED notFetch

\* "if not url: raise ValueError": the handler of the enclosing try turns the
\* ValueError into a ScrapingError
ScrapeEmptyUrl ==
    /\ f_pc = "try"
    /\ f_url = << >>
    /\ UNCHANGED notFetch
    /\ f_pc' = "raised"
    /\ f_outcome' = << [kind |-> "ScrapingError", cause |-> "ValueError"] >>
    /\ UNCHANGED << f_url, f_selenium, f_requests >>

\* the request is sent: the page comes back, or the failure is raised as ScrapingError
ScrapeRequest(how) ==
    /\ f_pc = "try"
    /\ f_url # << >>
    /\ how \in IF f_selenium THEN RenderedOutcomes ELSE StaticOutcomes
    /\ UNCHANGED notFetch
    /\ f_requests' = f_requests + 1
    /\ IF how = "ok"
       THEN /\ f_pc' = "returned"
            /\ f_outcome' = << [kind |-> "soup", cause |-> ""] >>
       ELSE /\ f_pc' = "raised"
            /\ f_outcome' = << [kind |-> "ScrapingError", cause |-> how] >>
    /\ UNCHANGED << f_url, f_selenium >>

FetchIdle ==
    /\ f_pc = "idle"
    /\ f_url = << >>
    /\ f_selenium = FALSE
    /\ f_requests = 0
    /\ f_outcome = << >>

(***************************************************************************)
(* The /scrape view (app.py 40-149) with WebScraper's constructor and      *)
(* close (scraper.py 42-93, 349-358).                                      *)
(***************************************************************************)
\* the methods WebScraper defines
ScraperMethods ==
    { "authenticate", "scrape", "extract_data", "save_to_json", "close", "parse_sitemap",
      "crawl_website", "crawl_and_scrape" }

\* the texts of the 'url' field: missing or empty, blank, and the address of
\* PageA with and without a space in front
FormUrls == { << >>, << " " >>, << " ", "a" >>, AddressA }

\* the texts of the 'selectors' field
FormSelectors == { "{}", "{\"title\": \"h1\"}", "title: h1" }

\* the texts of the 'max_pages' field: a number, or something int() rejects
FormMaxPages == [numeric : { TRUE }, value : 0..RouteBudget] \cup { [numeric |-> FALSE, value |-> 0] }

Forms ==
    [url : FormUrls, selectors : FormSelectors, is_sitemap : BOOLEAN, is_crawl : BOOLEAN,
     use_selenium : BOOLEAN, same_domain_only : BOOLEAN, max_pages : FormMaxPages]

\* request.form.get('url', '').strip()
strip(text) == rstrip(lstrip(text))

\* json.loads of the 'selectors' field
json_loads(text) ==
    CASE text = "{}" -> [raised |-> FALSE, value |-> << >>]
      [] text = "{\"title\": \"h1\"}" ->
            [raised |-> FALSE, value |-> << [key |-> "title", selector |-> "h1"] >>]
      [] OTHER -> [raised |-> TRUE, value |-> << >>]

\* the view returns a response; a success carries the data of the operation called
Respond(status, error) ==
    /\ r_response' = << [status |-> status, success |-> (status = 200),
                         data |-> IF status = 200 THEN r_called ELSE ""] >>
    /\ r_error' = error

\* a POST to /scrape, up to the construction of the scraper
scrape_request(f) ==
    /\ r_pc = "idle"
    /\ f_pc = "idle"
    /\ form' = f
    /\ IF json_loads(f.selectors).raised
       THEN Respond(400, "JSONDecodeError") /\ r_pc' = "done"
       ELSE IF strip(f.url) = << >>
       THEN Respond(400, "") /\ r_pc' = "done"
       ELSE IF ~f.max_pages.numeric
       THEN Respond(500, "ValueError") /\ r_pc' = "done"
       ELSE r_pc' = "validated" /\ UNCHANGED << r_response, r_error >>
    /\ UNCHANGED << session, driver, close_called, r_called >>
    /\ UNCHANGED << crawlVars, scrapeVars, fetchVars, notRoute >>

\* WebScraper(use_selenium=...): the session is created, then the driver is set
\* up; a failure of the setup leaves the view through its outer handler
Construct(driver_ok) ==
    /\ r_pc = "validated"
    /\ session' = "open"
    /\ IF form.use_selenium /\ ~driver_ok
       THEN /\ Respond(500, "SeleniumError")
            /\ r_pc' = "done"
            /\ UNCHANGED driver
       ELSE /\ driver' = IF form.use_selenium THEN "open" ELSE "none"
            /\ r_pc' = "constructed"
            /\ UNCHANGED << r_response, r_error >>
    /\ UNCHANGED << form, close_called, r_called >>
    /\ UNCHANGED << crawlVars, scrapeVars, fetchVars, notRoute >>

\* the view looks up an attribute the scraper does not have: AttributeError,
\* caught by "except Exception" of the inner try
CallMissing(name) ==
    /\ r_called' = name
    /\ Respond(500, "AttributeError")
    /\ r_pc' = "finally"
    /\ UNCHANGED << crawlVars, scrapeVars, fetchVars >>

\* is_sitemap: scraper.scrape_sitemap(url, selectors)
DispatchSitemap ==
    /\ r_pc = "constructed"
    /\ form.is_sitemap
    /\ CallMissing("scrape_sitemap")
    /\ UNCHANGED << form, session, driver, close_called >>
    /\ UNCHANGED notRoute

\* is_crawl: crawl_and_scrape with selectors, crawl_website without
DispatchCrawl ==
    /\ r_pc = "constructed"
    /\ ~form.is_sitemap
    /\ form.is_crawl
    /\ LET sels == json_loads(form.selectors).value
           budget == ClampPages(form.max_pages.value)
       IN  IF sels # << >>
           THEN /\ r_called' = "crawl_and_scrape"
                /\ StartCrawlAndScrape(PageA, sels, budget, form.same_domain_only)
           ELSE /\ r_called' = "crawl_website"
                /\ StartCrawl(PageA, budget, form.same_domain_only, "route", form.max_pages.value)
                /\ UNCHANGED scrapeVars
    /\ r_pc' = "calling"
    /\ UNCHANGED << form, session, driver, close_called, r_error, r_response >>
    /\ UNCHANGED << fetchVars, notRoute >>

\* neither: scraper.scrape_page(url, selectors) with selectors, scraper.scrape(url) without
DispatchSingle ==
    /\ r_pc = "constructed"
    /\ ~form.is_sitemap
    /\ ~form.is_crawl
    /\ IF json_loads(form.selectors).value # << >>
       THEN CallMissing("scrape_page")
       ELSE /\ r_called' = "scrape"
            /\ StartFetch(strip(form.url), form.use_selenium)
            /\ r_pc' = "calling"
            /\ UNCHANGED << crawlVars, scrapeVars, r_error, r_response >>
    /\ UNCHANGED << form, session, driver, close_called >>
    /\ UNCHANGED notRoute

\* the operation the view called has ended: "if not data" answers 404, a
\* ScrapingError 400, anything else goes on to be saved
OperationEnded ==
    /\ r_pc = "calling"
    /\ CASE r_called = "crawl_website" ->
              /\ pc = "done"
              /\ r_pc' = "saving"
              /\ UNCHANGED << r_response, r_error >>
         [] r_called = "crawl_and_scrape" ->
              /\ cs_pc = "done"
              /\ IF cs_result[1].empty
                 THEN Respond(404, "") /\ r_pc' = "finally"
                 ELSE r_pc' = "saving" /\ UNCHANGED << r_response, r_error >>
         [] r_called = "scrape" ->
              /\ f_pc \in { "returned", "raised" }
              /\ IF f_pc = "raised"
                 THEN Respond(400, "ScrapingError") /\ r_pc' = "finally"
                 ELSE r_pc' = "saving" /\ UNCHANGED << r_response, r_error >>
    /\ UNCHANGED << form, session, driver, close_called, r_called >>
    /\ UNCHANGED << crawlVars, scrapeVars, fetchVars, notRoute >>

\* the data is written to a file and the success response is built
SaveResults(written) ==
    /\ r_pc = "saving"
    /\ IF written THEN Respond(200, "") ELSE Respond(500, "OSError")
    /\ r_pc' = "finally"
    /\ UNCHANGED << form, session, driver, close_called, r_called >>
    /\ UNCHANGED << crawlVars, scrapeVars, fetchVars, notRoute >>

\* "finally: scraper.close()": quit the driver if there is one, then close the
\* session; an exception of driver.quit() is logged and ends close
Close(quit_ok) ==
    /\ r_pc = "finally"
    /\ close_called' = TRUE
    /\ IF driver = "open" /\ ~quit_ok
       THEN UNCHANGED << driver, session >>
       ELSE /\ driver' = IF driver = "open" THEN "quit" ELSE driver
            /\ session' = "closed"
    /\ r_pc' = "done"
    /\ UNCHANGED << form, r_called, r_error, r_response >>
    /\ UNCHANGED << crawlVars, scrapeVars, fetchVars, notRoute >>

RouteIdle ==
    /\ r_pc = "idle"
    /\ form = [url |-> << >>, selectors |-> "{}", is_sitemap |-> FALSE, is_crawl |-> FALSE,
               use_selenium |-> FALSE, same_domain_only |-> FALSE,
               max_pages |-> [numeric |-> TRUE, value |-> 0]]
    /\ session = "none"
    /\ driver = "none"
    /\ close_called = FALSE
    /\ r_called = ""
    /\ r_error = ""
    /\ r_response = << >>

CrawlInit(s) ==
    /\ pc = "idle"
    /\ site = s
    /\ via = "direct"
    /\ requested = 0
    /\ start_url = NoUrl
    /\ max_pages = 0
    /\ same_domain_only = FALSE
    /\ base_domain = ""
    /\ visited_urls = {}
    /\ discovered_urls = {}
    /\ crawl_data = EmptyMap
    /\ web = EmptyMap
    /\ log = << >>
    /\ clock = 0
    /\ result = << >>

Init == CrawlInit("open") /\ ExtractIdle /\ SitemapIdle /\ ScrapeIdle /\ AuthIdle /\ FetchIdle /\ RouteIdle

Next ==
    \/ \E start \in StartURLs, budget \in -1..MaxBudget, sdo \in BOOLEAN : crawl_website(start, budget, sdo)
    \/ \E u \in discovered_urls : PopVisited(u)
    \/ \E u \in discovered_urls : FetchFailed(u)
    \/ \E u \in discovered_urls : \E hrefs \in Contents(u) : FetchOk(u, hrefs)
    \/ ReturnReport

Spec == Init /\ [][Next]_vars

\* the single thread of the crawl keeps running until crawl_website returns
FairSpec == Spec /\ WF_vars(Next)

(***************************************************************************)
(* The chain site, crawled through the /scrape route or by a direct call,  *)
(* with budgets around the ceiling.                                        *)
(***************************************************************************)
ChainBudgets == { MaxBudget, PageCeiling, PageCeiling + 1 }

InitClamp == CrawlInit("chain") /\ ExtractIdle /\ SitemapIdle /\ ScrapeIdle /\ AuthIdle /\ FetchIdle /\ RouteIdle

NextClamp ==
    \/ \E asked \in ChainBudgets, sdo \in BOOLEAN : scrape_route(PageA, asked, sdo)
    \/ \E budget \in ChainBudgets, sdo \in BOOLEAN : crawl_website(PageA, budget, sdo)
    \/ \E u \in discovered_urls : PopVisited(u)
    \/ \E u \in discovered_urls : FetchFailed(u)
    \/ \E u \in discovered_urls : \E hrefs \in Contents(u) : FetchOk(u, hrefs)
    \/ ReturnReport

SpecClamp == InitClamp /\ [][NextClamp]_vars

(***************************************************************************)
(* crawl_and_scrape called on the open web                                 *)
(***************************************************************************)
InitScrape == CrawlInit("open") /\ ExtractIdle /\ SitemapIdle /\ ScrapeIdle /\ AuthIdle /\ FetchIdle /\ RouteIdle

NextScrape ==
    \/ \E start \in StartURLs, sels \in ScrapeSelectors, budget \in 0..ScrapeBudget, sdo \in BOOLEAN :
          crawl_and_scrape(start, sels, budget, sdo)
    \/ \E u \in discovered_urls : PopVisited(u)
    \/ \E u \in discovered_urls : FetchFailed(u)
    \/ \E u \in discovered_urls : \E hrefs \in Contents(u) : FetchOk(u, hrefs)
    \/ ReturnReport
    \/ NoPagesFound
    \/ BeginScrape
    \/ ScrapeFails
    \/ cs_pc = "scrape" /\ \E doc \in ScrapeSoups : ScrapeReturns(doc)
    \/ ReturnScraped

SpecScrape == InitScrape /\ [][NextScrape]_vars

(***************************************************************************)
(* authenticate called with any strategy name and any credentials          *)
(***************************************************************************)
InitAuth == CrawlInit("open") /\ ExtractIdle /\ SitemapIdle /\ ScrapeIdle /\ AuthIdle /\ FetchIdle /\ RouteIdle

NextAuth ==
    \/ \E type \in AuthTypes, creds \in CredentialBags, selenium \in BOOLEAN :
          authenticate(type, creds, selenium)
    \/ AuthUnsupported
    \/ \E response \in Responses : AuthBasic(response)
    \/ \E response \in Responses : FormGet(response)
    \/ \E response \in Responses : FormPost(response)
    \/ \E loaded \in BOOLEAN : DriverGet(loaded)
    \/ \E found \in SUBSET FormElements : DriverFill(found)
    \/ \E on_login \in BOOLEAN : DriverCheck(on_login)
    \/ \E response \in Responses, body \in JsonBodies : ApiPost(response, body)

SpecAuth == InitAuth /\ [][NextAuth]_vars

(***************************************************************************)
(* One use of the scraper: a POST to /scrape, or a direct call of scrape   *)
(***************************************************************************)
InitRoute ==
    CrawlInit("open") /\ ExtractIdle /\ SitemapIdle /\ ScrapeIdle /\ AuthIdle /\ FetchIdle /\ RouteIdle

NextRoute ==
    \/ r_pc = "idle" /\ \E f \in Forms : scrape_request(f)
    \/ r_pc = "idle" /\ \E url \in { << >>, AddressA }, selenium \in BOOLEAN : scrape(url, selenium)
    \/ \E driver_ok \in BOOLEAN : Construct(driver_ok)
    \/ DispatchSitemap
    \/ DispatchCrawl
    \/ DispatchSingle
    \/ \E u \in discovered_urls : PopVisited(u)
    \/ \E u \in discovered_urls : FetchFailed(u)
    \/ \E u \in discovered_urls : \E hrefs \in Contents(u) : FetchOk(u, hrefs)
    \/ ReturnReport
    \/ NoPagesFound
    \/ BeginScrape
    \/ ScrapeFails
    \/ cs_pc = "scrape" /\ \E doc \in ScrapeSoups : ScrapeReturns(doc)
    \/ ReturnScraped
    \/ ScrapeEmptyUrl
    \/ \E how \in StaticOutcomes \cup RenderedOutcomes : ScrapeRequest(how)
    \/ OperationEnded
    \/ \E written \in BOOLEAN : SaveResults(written)
    \/ \E quit_ok \in BOOLEAN : Close(quit_ok)

SpecRoute == InitRoute /\ [][NextRoute]_vars

(***************************************************************************)
(* extract_data called with any document and any selector mapping          *)
(***************************************************************************)
InitExtract == CrawlInit("open") /\ ExtractIdle /\ SitemapIdle /\ ScrapeIdle /\ AuthIdle /\ FetchIdle /\ RouteIdle

NextExtract ==
    \/ e_pc = "idle" /\ \E doc \in Soups, sels \in SelectorMaps : extract_data(doc, sels)
    \/ SelectReturns
    \/ SelectRaises
    \/ ReturnData

SpecExtract == InitExtract /\ [][NextExtract]_vars

(***************************************************************************)
(* parse_sitemap called on the root of any web of sitemaps                 *)
(***************************************************************************)
InitSitemap == CrawlInit("open") /\ ExtractIdle /\ SitemapIdle /\ ScrapeIdle /\ AuthIdle /\ FetchIdle /\ RouteIdle

NextSitemap ==
    \/ s_pc = "idle" /\ \E w \in SitemapWebs : parse_sitemap(w, Loc("s0", 0))
    \/ SitemapFails
    \/ ReadUrlset
    \/ RecurseInto
    \/ RecursionOverflow
    \/ ReturnIndex

SpecSitemap == InitSitemap /\ [][NextSitemap]_vars

(***************************************************************************)
(* parse_sitemap run to its end on the webs whose indexes list at most two *)
(* sitemaps and whose regular sitemaps hold at most one URL                *)
(***************************************************************************)
ShortWebs ==
    { w \in SitemapWebs :
        \A u \in SitemapURLs : Len(w[u].locs) <= (IF w[u].kind = "urlset" THEN 1 ELSE 2) }

\* the web is there before parse_sitemap is called on its root
InitShort ==
    /\ CrawlInit("open") /\ ExtractIdle /\ ScrapeIdle /\ AuthIdle /\ FetchIdle /\ RouteIdle
    /\ s_pc = "idle"
    /\ sitemaps \in ShortWebs
    /\ root = Loc("s0", 0)
    /\ stack = << >>
    /\ s_result = << >>

NextShort ==
    \/ parse_sitemap(sitemaps, Loc("s0", 0))
    \/ SitemapFails
    \/ ReadUrlset
    \/ RecurseInto
    \/ RecursionOverflow
    \/ ReturnIndex

\* the single thread of the resolution keeps running until parse_sitemap returns
FairSpecSitemap == InitShort /\ [][NextShort]_vars /\ WF_vars(NextShort)

(***************************************************************************)
(* Properties of crawl_website                                             *)
(***************************************************************************)
Max(a, b) == IF a >= b THEN a ELSE b

Failures == { i \in 1..Len(log) : ~log[i].ok }

Fetched == { log[i].url : i \in 1..Len(log) }

C2_Original ==
    pc # "idle" =>
        /\ Cardinality(visited_urls) <= max_pages
        /\ result # << >> => result[1].total_pages <= max_pages

\* C2 amended: the number of visited URLs and total_pages never exceed
\* max_pages when max_pages >= 0, and are 0 when max_pages is negative.
C2_WithinBudget ==
    pc # "idle" =>
        /\ Cardinality(visited_urls) <= Max(max_pages, 0)
        /\ result # << >> => result[1].total_pages <= Max(max_pages, 0)

\* a crawl that returned because the budget ran out, with URLs left in the frontier
C2_Witness ==
    /\ pc = "done"
    /\ max_pages = 2
    /\ result[1].total_pages = 2
    /\ discovered_urls \ visited_urls # {}

\* the fixture A -> B -> A, both pages fetchable, and a budget of at least 2
FixtureABA ==
    /\ start_url = PageA
    /\ max_pages >= 2
    /\ Failures = {}
    /\ PageA \in DOMAIN web
    /\ web[PageA] = { Rel(1) }
    /\ PageB \in DOMAIN web => web[PageB] = { Rel(0) }

\* C3: a URL is never fetched after it was visited, no URL is fetched
\* successfully (and so recorded) twice, the records are exactly those of the
\* successful fetches, and the crawl of A -> B -> A ends with visited = {A, B}.
C3_NeverRevisits ==
    /\ \A i, j \in 1..Len(log) : (i < j /\ log[i].ok) => log[j].url # log[i].url
    /\ DOMAIN crawl_data = { log[i].url : i \in 1..Len(log) \ Failures }
    /\ visited_urls = DOMAIN crawl_data
    /\ (pc = "done" /\ FixtureABA) => visited_urls = { PageA, PageB }

\* the crawl of A -> B -> A has returned, after B's link back to A was popped
C3_Witness ==
    /\ pc = "done"
    /\ FixtureABA
    /\ max_pages = MaxBudget
    /\ discovered_urls = {}
    /\ Len(log) = 2

\* C4 as stated: no crawl visits more than 100 pages, whoever requested it.
C4_Original == Cardinality(visited_urls) <= PageCeiling

\* C4 amended: a budget requested above the ceiling through the /scrape route
\* is clamped to 100, so no crawl started by the route visits more than 100
\* pages (a direct call of crawl_website keeps the budget it was given).
C4_RouteClamps ==
    (pc # "idle" /\ via = "route") =>
        /\ max_pages = (IF requested > PageCeiling THEN PageCeiling ELSE requested)
        /\ Cardinality(visited_urls) <= PageCeiling

\* the route was asked for more than 100 pages and the crawl stopped at 100
C4_Witness ==
    /\ pc = "done"
    /\ via = "route"
    /\ requested > PageCeiling
    /\ result[1].total_pages = PageCeiling
    /\ discovered_urls \ visited_urls # {}

\* the absolute URLs of the links of a served page
LinksOf(u) == { urljoin(u, h) : h \in web[u] }

\* C5: with same_domain_only every URL of the frontier, every URL fetched and
\* every URL recorded has the start URL's host; without it an http(s) link to
\* another host is admitted to the frontier (and stays until it is popped).
C5_SameDomain ==
    pc # "idle" =>
        /\ same_domain_only =>
              \A u \in discovered_urls \cup Fetched \cup visited_urls \cup DOMAIN crawl_data :
                  netloc(u) = netloc(start_url)
        /\ ~same_domain_only =>
              \A u \in DOMAIN web : \A x \in LinksOf(u) :
                  (netloc(x) # netloc(start_url) /\ scheme(x) \in {"http", "https"})
                      => x \in discovered_urls \cup Fetched

\* a same-domain crawl has fetched a page that links to another host
C5_Witness ==
    /\ pc = "done"
    /\ same_domain_only
    /\ \E u \in DOMAIN web : \E x \in LinksOf(u) :
           netloc(x) # netloc(start_url) /\ scheme(x) \in {"http", "https"}

\* C6: the step in which a fetch fails leaves visited and the crawl records
\* as they were, removes only the failed URL from the frontier and stays in
\* the loop; a crawl whose start URL fails returns a report with zero pages.
C6_FailureSkipped ==
    /\ [][ (Len(log') = Len(log) + 1 /\ ~log'[Len(log')].ok) =>
              /\ visited_urls' = visited_urls
              /\ log'[Len(log')].url \notin visited_urls'
              /\ crawl_data' = crawl_data
              /\ discovered_urls' = discovered_urls \ { log'[Len(log')].url }
              /\ pc' = "loop"
              /\ result' = << >> ]_vars
    /\ [](( pc = "done" /\ Len(log) >= 1 /\ ~log[1].ok) =>
              result = << [base_url |-> start_url, total_pages |-> 0, pages |-> EmptyMap] >>)

\* a fetch failed in the middle of a crawl that went on to visit another page
C6_Witness ==
    /\ pc = "done"
    /\ \E i \in Failures : \E j \in 1..Len(log) : j > i /\ log[j].ok
    /\ \E i \in Failures : log[i].url \notin visited_urls

(***************************************************************************)
(* Properties of extract_data                                              *)
(***************************************************************************)
\* C7: extract_data called with an empty mapping ends with SelectorError, and
\* no selector has been handed to soup.select.
C7_EmptyMappingRaises ==
    (e_pc # "idle" /\ selectors = << >>) =>
        /\ e_pc = "raised"
        /\ outcome # << >>
        /\ outcome[1].kind = "SelectorError"
        /\ evaluated = << >>

\* extract_data was called with an empty mapping and has ended
C7_Witness == e_pc = "raised" /\ selectors = << >> /\ outcome # << >>

\* the position of the first field whose selector fails, 0 if none does
FirstFailing ==
    IF \E i \in 1..Len(selectors) : selectors[i].selector \in InvalidSelectors
    THEN CHOOSE i \in 1..Len(selectors) :
            /\ selectors[i].selector \in InvalidSelectors
            /\ \A j \in 1..(i - 1) : selectors[j].selector \notin InvalidSelectors
    ELSE 0

\* C8: when some field's selector fails, extract_data ends with SelectorError
\* naming the first such field, hands the caller none of the fields extracted
\* before it, and never returns data.
C8_NoPartialResult ==
    (e_pc \in {"returned", "raised"} /\ FirstFailing > 0) =>
        /\ e_pc = "raised"
        /\ outcome[1].kind = "SelectorError"
        /\ outcome[1].field = selectors[FirstFailing].key
        /\ outcome[1].data = EmptyMap

\* the second field failed after the first one had been extracted
C8_Witness ==
    /\ e_pc = "raised"
    /\ FirstFailing = 2
    /\ DOMAIN data # {}
    /\ outcome[1].field = selectors[2].key

IsSpaces(t) == \A i \in 1..Len(t) : t[i] = " "

\* t is raw without the white space around it
IsTrimOf(t, raw) ==
    /\ \E a \in 0..Len(raw) : \E b \in a..Len(raw) :
          /\ t = SubSeq(raw, a + 1, b)
          /\ IsSpaces(SubSeq(raw, 1, a))
          /\ IsSpaces(SubSeq(raw, b + 1, Len(raw)))
    /\ t # << >> => (t[1] # " " /\ t[Len(t)] # " ")

\* v is what the claim promises for a field whose selector matches the nodes m
ValueFor(v, m) ==
    /\ Len(m) = 0 => v.kind = "null"
    /\ Len(m) = 1 => (v.kind = "str" /\ Len(v.texts) = 1 /\ IsTrimOf(v.texts[1], m[1]))
    /\ Len(m) >= 2 => /\ v.kind = "list"
                      /\ Len(v.texts) = Len(m)
                      /\ \A j \in 1..Len(m) : IsTrimOf(v.texts[j], m[j])

RECURSIVE Flat(_)
Flat(lists) == IF lists = << >> THEN << >> ELSE Head(lists) \o Flat(Tail(lists))

\* the URLs the claim promises for the sitemap u: its own <loc> entries, or the
\* concatenation, in the order of the index, of what each child resolves to
RECURSIVE Resolved(_, _)
Resolved(u, depth) ==
    IF sitemaps[u].kind = "urlset" THEN sitemaps[u].locs
    ELSE IF sitemaps[u].kind = "index" /\ depth > 0
         THEN Flat([k \in 1..Len(sitemaps[u].locs) |-> Resolved(sitemaps[u].locs[k], depth - 1)])
         ELSE << >>

Children(u) ==
    IF sitemaps[u].kind = "index"
    THEN { sitemaps[u].locs[k] : k \in 1..Len(sitemaps[u].locs) }
    ELSE {}

RECURSIVE Descendants(_, _)
Descendants(S, n) ==
    IF n = 0 THEN {}
    ELSE UNION { Children(u) : u \in S } \cup Descendants(UNION { Children(u) : u \in S }, n - 1)

\* no sitemap that the root leads to, nor the root, leads back to itself
Acyclic ==
    \A u \in { root } \cup Descendants({ root }, Cardinality(SitemapURLs)) :
        u \notin Descendants({ u }, Cardinality(SitemapURLs))

\* the fixture: an index of two regular sitemaps of three URLs each
TwoLevelIndex ==
    /\ sitemaps[Loc("s0", 0)] = [kind |-> "index", locs |-> << Loc("s1", 0), Loc("s2", 0) >>]
    /\ sitemaps[Loc("s1", 0)] = [kind |-> "urlset", locs |-> << Loc("s1", 1), Loc("s1", 2), Loc("s1", 3) >>]
    /\ sitemaps[Loc("s2", 0)] = [kind |-> "urlset", locs |-> << Loc("s2", 1), Loc("s2", 2), Loc("s2", 3) >>]

\* C10: on an acyclic web of sitemaps parse_sitemap returns, for an index, the
\* concatenation in the order of its <loc> entries of what each child resolves
\* to, and for a regular sitemap its <loc> entries in document order; the
\* two-level index of 3 + 3 URLs gives those six URLs in that order.
C10_DocumentOrder ==
    (s_pc = "done" /\ Acyclic) =>
        /\ s_result = << Resolved(root, Cardinality(SitemapURLs)) >>
        /\ sitemaps[root].kind = "urlset" => s_result = << sitemaps[root].locs >>
        /\ TwoLevelIndex => s_result = << << Loc("s1", 1), Loc("s1", 2), Loc("s1", 3),
                                             Loc("s2", 1), Loc("s2", 2), Loc("s2", 3) >> >>

\* the two-level index has been resolved to six URLs
C10_Witness ==
    /\ s_pc = "done"
    /\ TwoLevelIndex
    /\ Len(s_result[1]) = 6

\* C11: on an acyclic web, a sub-sitemap of the root index whose request or
\* parse fails adds no URL, every sibling before and after it still adds what it
\* resolves to, and the resolution never ends by raising.
C11_FailedBranchSkipped ==
    /\ s_pc \in {"idle", "run", "done"}
    /\ s_pc = "done" => s_result # << >>
    /\ (s_pc = "done" /\ Acyclic /\ sitemaps[root].kind = "index") =>
          LET locs == sitemaps[root].locs
              part(k) == IF sitemaps[locs[k]].kind = "error" THEN << >>
                         ELSE Resolved(locs[k], Cardinality(SitemapURLs))
          IN  s_result = << Flat([k \in 1..Len(locs) |-> part(k)]) >>

\* an index lists a regular sitemap before and after a sitemap that fails, and
\* the URLs of the regular sitemap have been returned twice
C11_Witness ==
    /\ s_pc = "done"
    /\ sitemaps[root].kind = "index"
    /\ Len(sitemaps[root].locs) = 3
    /\ sitemaps[sitemaps[root].locs[2]].kind = "error"
    /\ sitemaps[sitemaps[root].locs[1]].kind = "urlset"
    /\ Len(sitemaps[sitemaps[root].locs[1]].locs) = 2
    /\ Len(s_result[1]) = 4

\* the URLs whose second request was answered and whose extraction returned data
ScrapedOk == { cs_log[i].url : i \in { j \in 1..Len(cs_log) : cs_log[j].ok /\ cs_log[j].extracted } }

\* C12: in crawl_and_scrape no page is requested for extraction before the
\* crawl has returned its report; the keys of scraped_data are exactly the URLs
\* whose second request and extraction both succeeded, all of them pages of the
\* report; and the returned scraped_data is that mapping.
C12_CrawlThenScrape ==
    /\ cs_log # << >> => pc = "done" /\ result # << >> /\ cs_pc \in {"scrape", "done"}
    /\ DOMAIN scraped_data = ScrapedOk
    /\ pc = "done" => DOMAIN scraped_data \subseteq DOMAIN result[1].pages
    /\ \A i \in 1..Len(cs_log) : cs_log[i].url \in DOMAIN crawl_data
    /\ (cs_pc = "done" /\ ~cs_result[1].empty) =>
          /\ cs_result[1].crawl_info = result[1]
          /\ DOMAIN cs_result[1].scraped_data = ScrapedOk
          /\ Len(cs_log) = Cardinality(DOMAIN result[1].pages)

\* crawl_and_scrape has returned after a crawl of two pages, one of which was
\* scraped and the other could not be requested the second time
C12_Witness ==
    /\ cs_pc = "done"
    /\ ~cs_result[1].empty
    /\ Cardinality(DOMAIN cs_result[1].crawl_info.pages) = 2
    /\ Cardinality(DOMAIN cs_result[1].scraped_data) = 1
    /\ \E i \in 1..Len(cs_log) : ~cs_log[i].ok
    /\ \E i \in 1..Len(log) : ~log[i].ok

\* C13: authenticate never lets an exception out: it ends only by returning,
\* what it returns is a boolean, and it is False whenever an exception was
\* raised on the way or the strategy is none of basic, form and api.
C13_AuthNeverRaises ==
    /\ a_pc \in { "idle", "called", "login_data", "page", "submitted", "done" }
    /\ a_pc = "done" =>
          /\ a_result \in { << TRUE >>, << FALSE >> }
          /\ (a_raised \/ auth_type \notin { "basic", "form", "api" }) => a_result = << FALSE >>
    /\ a_pc # "done" => a_result = << >> /\ ~a_raised

\* form authentication with a credentials bag that has no password: the login
\* page was fetched, building login_data raised, and False was returned
C13_Witness ==
    /\ a_pc = "done"
    /\ auth_type = "form"
    /\ ~a_selenium
    /\ credentials = { "username" }
    /\ a_requests = << "GET" >>
    /\ a_raised
    /\ a_result = << FALSE >>

\* C14: when the /scrape view has returned its response, every scraper whose
\* session was created while handling the request has had close() called on it,
\* whichever way the view was left.
C14_CleanupOnEveryExit ==
    (r_pc = "done" /\ session # "none") => close_called

\* the pipeline mode a form asks for
Mode(f) ==
    IF f.is_sitemap THEN "sitemap"
    ELSE IF f.is_crawl
         THEN IF json_loads(f.selectors).value # << >> THEN "combined" ELSE "crawl"
         ELSE "single"

\* C15: whatever the view calls on the scraper is an operation the scraper has,
\* a success response carries the result of the operation called, and a
\* single-page request with selectors whose page could be fetched and whose
\* result could be saved is answered 200 with success = true.
C15_ModesDispatched ==
    /\ r_called # "" => r_called \in ScraperMethods
    /\ (r_pc = "done" /\ r_response[1].status = 200) =>
          r_response[1].success /\ r_response[1].data = r_called
    /\ (r_pc = "done" /\ r_called # "" /\ Mode(form) = "single"
           /\ json_loads(form.selectors).value # << >>
           /\ r_error \notin { "ScrapingError", "OSError" }) =>
          r_response[1].status = 200 /\ r_response[1].success

\* C16: scrape called with the empty URL sends no request and raises the
\* validation error, not the error of a failed fetch; a /scrape request whose
\* URL is empty after stripping is answered 400 with no scraper constructed and
\* nothing fetched.
C16_EmptyUrlRejected ==
    /\ (f_pc = "raised" /\ f_url = << >>) =>
          f_requests = 0 /\ f_outcome[1].kind = "ValueError"
    /\ (r_pc = "done" /\ strip(form.url) = << >>) =>
          /\ r_response[1].status = 400
          /\ session = "none" /\ driver = "none"
          /\ f_requests = 0 /\ log = << >> /\ cs_log = << >>

(***************************************************************************)
(* Properties of the crawl loop, continued                                 *)
(***************************************************************************)
\* C17: between any two consecutive requests of the crawl loop one time unit
\* has been slept, also when the earlier of the two failed.
C17_DelayBetweenFetches ==
    \A i \in 1..(Len(log) - 1) : log[i + 1].at >= log[i].at + 1

\* C18 as stated: at the start of every iteration of the crawl loop no URL is
\* both in the frontier and in visited.
C18_Original == pc = "loop" => discovered_urls \cap visited_urls = {}

\* the visited pages that carry a link to themselves
SelfLinking == { u \in visited_urls : u \in LinksOf(u) }

\* C18: every URL a step adds to the frontier is outside visited when it is
\* added; the frontier and visited overlap only in visited pages that link to
\* themselves, and a crawl that has served no self-linking page keeps the two
\* disjoint.
C18_FrontierOutsideVisited ==
    /\ [][ (discovered_urls' \ discovered_urls) \cap visited_urls = {} ]_vars
    /\ [](discovered_urls \cap visited_urls \subseteq SelfLinking)
    /\ []((\A u \in DOMAIN web : u \notin LinksOf(u)) => discovered_urls \cap visited_urls = {})

\* the crawl is in its loop with a visited page that links to itself in the frontier
C18_Witness ==
    /\ pc = "loop"
    /\ \E u \in discovered_urls \cap visited_urls : u \in LinksOf(u)

\* the URLs whose request failed
FailedUrls == { log[i].url : i \in Failures }

\* a link the crawl is to follow: http or https, and on the start URL's host
\* when same_domain_only
InScope(u) ==
    /\ u.scheme \in { "http", "https" }
    /\ same_domain_only => u.host = start_url.host

\* the fetchable URLs reachable from the start URL through in-scope links of
\* fetchable pages, R being the ones found so far
RECURSIVE Reachable(_)
Reachable(R) ==
    LET more == { t \in UNION { IF u \in DOMAIN web THEN LinksOf(u) ELSE {} : u \in R } :
                    InScope(t) /\ t \notin FailedUrls }
    IN  IF more \subseteq R THEN R ELSE Reachable(R \cup more)

C20_Original ==
    /\ [](s_pc = "done" => Acyclic)
    /\ (s_pc = "run" /\ Acyclic) ~> (s_pc = "done")

\* C20: nothing keeps parse_sitemap from entering a sitemap that is already
\* being resolved, so on a cycle the calls nest up to the recursion limit; the
\* RecursionError is then caught like any other failure, and every resolution,
\* on a web with a cycle or without, returns a list.
C20_ReturnsAtRecursionLimit ==
    /\ [](Len(stack) <= RecursionLimit)
    /\ [](s_pc \in { "idle", "run", "done" })
    /\ []((s_pc = "done" /\ sitemaps[root] = [kind |-> "index", locs |-> << root >>])
              => s_result = << << >> >>)
    /\ <>(s_pc = "done" /\ s_result # << >>)

\* an index that lists itself and then a regular sitemap has been resolved,
\* and the URLs of the regular sitemap have been returned
C20_Witness ==
    /\ s_pc = "done"
    /\ sitemaps[root].kind = "index"
    /\ Len(sitemaps[root].locs) = 2
    /\ sitemaps[root].locs[1] = root
    /\ sitemaps[sitemaps[root].locs[2]].kind = "urlset"
    /\ s_result[1] # << >>

====
